---------------------------- MODULE Spec2Model ----------------------------
(***************************************************************************)
(* DynamicToolDispatcher (src/tools/dispatcher.py): the rule-based tool    *)
(* selection of the AutoGenFlows demonstration, and the callers that run   *)
(* analyze_task on it.                                                     *)
(*                                                                         *)
(* Task texts are strings; a Python string is modelled by a TLA+ string,   *)
(* read character by character with Len, SubSeq and \o.  Every regular     *)
(* expression of the dispatcher is modelled by what re.search does with    *)
(* it: the tool, time and metric patterns are literals (pm2\.5 is the      *)
(* literal pm2.5), so searching them is substring search; \bco\b adds the  *)
(* word boundaries; the location patterns are a literal next to the        *)
(* greedy capture ([A-Za-z\s]+).                                           *)
(***************************************************************************)
EXTENDS Integers, Sequences, FiniteSets, TLC

VARIABLES
    tool_patterns,      \* self.tool_patterns of each dispatcher instance
    location_patterns,  \* self.location_patterns of each dispatcher instance
    time_patterns,      \* self.time_patterns of each dispatcher instance
    now,                \* the wall clock datetime.now() reads
    task,               \* the task text the caller asks about
    first,              \* the first analyze_task call of the run and its plan
    last,               \* the most recent analyze_task call and its plan
    tools_arg,          \* the list the caller hands to get_tool_execution_order
    ordered_tools,      \* what get_tool_execution_order returned for it
    frames,             \* the locals of the calls running on a shared dispatcher
    outer_flow,         \* the OuterTeamFlow, its proxy and its coordinate_project call
    inner_teams         \* its InnerTeamFlows, their proxies and execute_task calls

vars == <<tool_patterns, location_patterns, time_patterns, now, task, first, last,
          tools_arg, ordered_tools, frames, outer_flow, inner_teams>>

dispatcherVars == <<tool_patterns, location_patterns, time_patterns, now, task, first,
                    last, tools_arg, ordered_tools, frames>>

-----------------------------------------------------------------------------
(* Bounds of the model.                                                    *)

\* A task text is at most MaxPhrases phrases of Phrases, joined by blanks.
MaxPhrases == 2

\* The clock stops the run after MaxClock calls.
MaxClock == 2

\* A list handed to get_tool_execution_order has at most MaxTools entries.
MaxTools == 3

\* The longest list of tasks handed to coordinate_project.
MaxProjectTasks == 3

\* The invalid lines a human types at one prompt before a valid one.
MaxReads == 2

\* The dispatcher instances of a run (create_tool_dispatcher is called twice).
Dispatchers == {"d1", "d2"}

\* The callers (threads, tasks) that use one dispatcher at the same time.
Callers == {"c1", "c2"}

\* The phrases task texts are built from: the spec's examples split in two
\* ("Analyze pollution" + "in Delhi", "Show me the" + "data", "Check PM2.5"
\* + "and NO2 levels"), words that match no pattern, the patterns of one
\* category or of two, and a filler of ten words that brings the word count
\* over the complexity thresholds.
Phrases ==
    { "Analyze pollution", "in Delhi", "Show me the", "data", "in study",
      "stock market", "weather conditions", "analysis", "vs", "Check PM2.5",
      "and NO2 levels", "Evaluate", "a b co d e f g h i j" }

\* test_tasks: the tasks the demonstration analyses.
test_tasks ==
    { "Analyze environmental pollution trends in Delhi",
      "Research stock market performance this quarter",
      "Evaluate weather patterns for agriculture planning" }

RECURSIVE TasksOfLength(_)
TasksOfLength(n) ==
    IF n = 0 THEN {""}
    ELSE IF n = 1 THEN Phrases
    ELSE {t \o " " \o p : t \in TasksOfLength(n - 1), p \in Phrases}

\* Texts of 8, 9, 15 and 16 words without a complexity keyword, and the
\* spec's example of a task with complexity keywords.
ThresholdTasks ==
    { "a b co d e f g h",
      "a b co d e f g h i",
      "a b co d e f g h i j k l m n o",
      "a b co d e f g h i j k l m n o p",
      "Compare and analyze pollution trends across multiple cities in detail" }

Tasks ==
    UNION {TasksOfLength(n) : n \in 0..MaxPhrases} \cup test_tasks \cup ThresholdTasks

-----------------------------------------------------------------------------
(* Python's str and re, as far as the dispatcher uses them.                *)

\* s[i], 1-based, as a string of length one.
Char(s, i) == SubSeq(s, i, i)

LowerLetters == "abcdefghijklmnopqrstuvwxyz"
UpperLetters == "ABCDEFGHIJKLMNOPQRSTUVWXYZ"
Digits == "0123456789"

\* The characters of a string, as a set.
CharsOf(s) == {Char(s, i) : i \in 1..Len(s)}

LowerSet == CharsOf(LowerLetters)
UpperSet == CharsOf(UpperLetters)
DigitSet == CharsOf(Digits)

ToLower ==
    [c \in UpperSet |->
        Char(LowerLetters, CHOOSE i \in 1..Len(UpperLetters) : Char(UpperLetters, i) = c)]

IsLetter(c) == c \in LowerSet \/ c \in UpperSet
IsSpace(c) == c = " "

\* [A-Za-z\s]
InCaptureClass(c) == IsSpace(c) \/ IsLetter(c)

\* \w
IsWordChar(c) == IsLetter(c) \/ c \in DigitSet \/ c = "_"

LowerChar(c) == IF c \in UpperSet THEN ToLower[c] ELSE c

\* str.lower()
RECURSIVE lower(_)
lower(s) ==
    IF Len(s) = 0 THEN ""
    ELSE IF Len(s) = 1 THEN LowerChar(s)
    ELSE LET half == Len(s) \div 2
         IN  lower(SubSeq(s, 1, half)) \o lower(SubSeq(s, half + 1, Len(s)))

\* The text has the literal at position i.
LiteralAt(text, literal, i) ==
    /\ i >= 1
    /\ i + Len(literal) - 1 <= Len(text)
    /\ SubSeq(text, i, i + Len(literal) - 1) = literal

\* The substrings of the text that are n characters long.
Substrings(text, n) == {SubSeq(text, i, i + n - 1) : i \in 1..(Len(text) - n + 1)}

\* re.search(literal, text) is not None, and `literal in text`.
Contains(text, literal) == literal \in Substrings(text, Len(literal))

\* The search of co without its word boundaries.
ContainsWord_NoBoundary(text, literal) == Contains(text, literal)

\* re.search(r'\bliteral\b', text) is not None: an occurrence with no word
\* character next to it on either side (the literal is made of word characters).
ContainsWord(text, literal) ==
    \E i \in 1..(Len(text) - Len(literal) + 1) :
        /\ LiteralAt(text, literal, i)
        /\ (i = 1 \/ ~IsWordChar(Char(text, i - 1)))
        /\ (i + Len(literal) > Len(text) \/ ~IsWordChar(Char(text, i + Len(literal))))

\* str.strip() of a string whose only white space is the blank.
RECURSIVE strip(_)
strip(s) ==
    IF Len(s) = 0 THEN ""
    ELSE IF IsSpace(Char(s, 1)) THEN strip(SubSeq(s, 2, Len(s)))
    ELSE IF IsSpace(Char(s, Len(s))) THEN strip(SubSeq(s, 1, Len(s) - 1))
    ELSE s

\* len(s.split()): the number of maximal runs of non-blank characters.
WordCount(s) ==
    Cardinality({i \in 1..Len(s) :
        /\ ~IsSpace(Char(s, i))
        /\ (i = 1 \/ IsSpace(Char(s, i - 1)))})

\* x in list
InList(list, x) == \E i \in 1..Len(list) : list[i] = x

\* dict[key] = value on a dict kept as a function.
DictSet(dict, key, value) ==
    [k \in DOMAIN dict \cup {key} |-> IF k = key THEN value ELSE dict[k]]

EmptyDict == [k \in {} |-> 0]

-----------------------------------------------------------------------------
(* DynamicToolDispatcher.__init__: the tables of a new instance.           *)

\* self.tool_patterns: a dict, iterated in insertion order.
InitialToolPatterns ==
    << [tool_type |-> "environmental_data",
        patterns |-> << "pollution", "environment", "air quality", "water quality",
                        "pm2.5", "pm10", "carbon", "emissions", "climate",
                        "contamination" >>],
       [tool_type |-> "web_search",
        patterns |-> << "news", "current", "latest", "recent", "today", "search",
                        "research", "study", "report", "analysis", "information" >>],
       [tool_type |-> "market_data",
        patterns |-> << "stock", "market", "price", "finance", "economy",
                        "business", "revenue", "profit", "sales", "trading" >>],
       [tool_type |-> "weather_data",
        patterns |-> << "weather", "temperature", "rain", "storm", "forecast",
                        "humidity", "wind", "precipitation" >>],
       [tool_type |-> "data_analysis",
        patterns |-> << "analyze", "analysis", "compare", "comparison", "evaluate",
                        "assess", "calculate", "measure", "statistics" >>] >>

\* self.location_patterns: r'in ([A-Za-z\s]+)' is the literal "in " before
\* the capture, r'([A-Za-z\s]+) pollution' the literal " pollution" after it.
InitialLocationPatterns ==
    << [before |-> "in ", after |-> ""],
       [before |-> "for ", after |-> ""],
       [before |-> "from ", after |-> ""],
       [before |-> "", after |-> " pollution"],
       [before |-> "", after |-> " environment"],
       [before |-> "", after |-> " data"] >>

\* self.time_patterns
InitialTimePatterns ==
    << "last year", "previous year", "2023", "2024", "2025",
       "compared to", "vs", "versus", "difference", "change from" >>

-----------------------------------------------------------------------------
(* _extract_location                                                       *)

\* The last position of the run of [A-Za-z\s] characters that starts at i
\* (i - 1 when the character at i is not of the class).
ClassRunEnd(text, i) ==
    i - 1 + Cardinality({j \in i..Len(text) :
                            \A k \in i..j : InCaptureClass(Char(text, k))})

\* The match of a location pattern that starts at position i, as the pair
\* of the first and last position of group 1, or <<>> when the pattern does
\* not match there.  low is the lower-cased text, on which the literals are
\* compared (re.IGNORECASE).  The capture is greedy: with the literal before
\* it, it is the whole run of class characters; with the literal after it,
\* it ends before the last occurrence of the literal that the run reaches.
MatchAt(pattern, text, low, i) ==
    IF pattern.after = ""
    THEN LET start == i + Len(pattern.before)
             end == ClassRunEnd(text, start)
         IN  IF LiteralAt(low, pattern.before, i) /\ end >= start
             THEN <<start, end>>
             ELSE <<>>
    ELSE LET end == ClassRunEnd(text, i)
             ends == {j \in i..end : LiteralAt(low, pattern.after, j + 1)}
         IN  IF ends # {}
             THEN <<i, CHOOSE j \in ends : \A k \in ends : k <= j>>
             ELSE <<>>

\* The match at the leftmost position, from i on, that has one.  With the
\* literal after the capture, a start inside a run of class characters that
\* gave no match gives none either (its run ends at the same place), so the
\* scan goes on behind the run.
RECURSIVE SearchFrom(_, _, _, _)
SearchFrom(pattern, text, low, i) ==
    IF i > Len(text) THEN <<>>
    ELSE IF pattern.after = ""
    THEN LET starts == {j \in i..Len(text) : MatchAt(pattern, text, low, j) # <<>>}
         IN  IF starts = {} THEN <<>>
             ELSE MatchAt(pattern, text, low,
                          CHOOSE j \in starts : \A k \in starts : j <= k)
    ELSE LET m == MatchAt(pattern, text, low, i)
         IN  IF m # <<>> THEN m
             ELSE SearchFrom(pattern, text, low, ClassRunEnd(text, i) + 2)

\* re.search(pattern, text, re.IGNORECASE): <<match.group(1)>>, or <<>>
\* when there is no match.  low is the lower-cased text; a text that does
\* not hold the pattern's literal has no match.
re_search_group1(pattern, text, low) ==
    IF ~Contains(low, pattern.before \o pattern.after) THEN <<>>
    ELSE LET m == SearchFrom(pattern, text, low, 1)
         IN  IF m = <<>> THEN <<>> ELSE <<SubSeq(text, m[1], m[2])>>

NoiseWords == << "data", "information", "analysis", "report" >>

RECURSIVE ExtractLocationFrom(_, _, _, _)
ExtractLocationFrom(patterns, text, low, n) ==
    IF n > Len(patterns) THEN "global"
    ELSE LET match == re_search_group1(patterns[n], text, low)
         IN  IF match # <<>> /\ ~InList(NoiseWords, lower(strip(match[1])))
             THEN strip(match[1])
             ELSE ExtractLocationFrom(patterns, text, low, n + 1)

\* The location without its default: no match gives the empty string.
_extract_location_NoDefault(self, task_description) ==
    LET location == ExtractLocationFrom(location_patterns[self], task_description,
                                        lower(task_description), 1)
    IN  IF location = "global" THEN "" ELSE location

_extract_location(self, task_description) ==
    ExtractLocationFrom(location_patterns[self], task_description,
                        lower(task_description), 1)

-----------------------------------------------------------------------------
(* _detect_time_comparison, _classify_task_type, _assess_complexity,       *)
(* _extract_pollution_metrics, _determine_execution_strategy               *)

\* any(re.search(pattern, text) for pattern in patterns)
AnySearch(patterns, text) == \E i \in 1..Len(patterns) : Contains(text, patterns[i])

\* The detection with all() for any().
_detect_time_comparison_All(self, task_text) ==
    \A i \in 1..Len(time_patterns[self]) : Contains(task_text, time_patterns[self][i])

_detect_time_comparison(self, task_text) == AnySearch(time_patterns[self], task_text)

\* The classification with the financial branch before the environmental.
_classify_task_type_FinancialFirst(task_text) ==
    IF AnySearch(<< "market", "stock", "finance" >>, task_text)
    THEN "financial"
    ELSE IF AnySearch(<< "pollution", "environment", "climate" >>, task_text)
    THEN "environmental"
    ELSE IF AnySearch(<< "weather", "temperature", "forecast" >>, task_text)
    THEN "weather"
    ELSE IF AnySearch(<< "analyze", "compare", "evaluate" >>, task_text)
    THEN "analytical"
    ELSE "general"

_classify_task_type(task_text) ==
    IF AnySearch(<< "pollution", "environment", "climate" >>, task_text)
    THEN "environmental"
    ELSE IF AnySearch(<< "market", "stock", "finance" >>, task_text)
    THEN "financial"
    ELSE IF AnySearch(<< "weather", "temperature", "forecast" >>, task_text)
    THEN "weather"
    ELSE IF AnySearch(<< "analyze", "compare", "evaluate" >>, task_text)
    THEN "analytical"
    ELSE "general"

\* The indicators without evaluate.
complexity_indicators_NoEvaluate ==
    << "compare", "analyze", "assessment", "comprehensive", "detailed" >>

complexity_indicators ==
    << "compare", "analyze", "evaluate", "assessment", "comprehensive", "detailed" >>

\* The assessment with >= for > in the word-count thresholds.
_assess_complexity_AtLeast(task_text) ==
    LET word_count == WordCount(task_text)
        has_complex_words == AnySearch(complexity_indicators, lower(task_text))
    IN  IF word_count >= 15 \/ has_complex_words THEN "high"
        ELSE IF word_count >= 8 THEN "medium"
        ELSE "low"

\* The assessment that answers "complex" for "high".
_assess_complexity_Complex(task_text) ==
    LET word_count == WordCount(task_text)
        has_complex_words == AnySearch(complexity_indicators, lower(task_text))
    IN  IF word_count > 15 \/ has_complex_words THEN "complex"
        ELSE IF word_count > 8 THEN "medium"
        ELSE "low"

_assess_complexity(task_text) ==
    LET word_count == WordCount(task_text)
        has_complex_words == AnySearch(complexity_indicators, lower(task_text))
    IN  IF word_count > 15 \/ has_complex_words THEN "high"
        ELSE IF word_count > 8 THEN "medium"
        ELSE "low"

\* metric_patterns: each pattern is an alternation of literals; word marks
\* the alternative written between \b and \b.
metric_patterns ==
    << [metric |-> "pm2.5", alternatives |-> << [literal |-> "pm2.5", word |-> FALSE],
                                                [literal |-> "particulate matter 2.5", word |-> FALSE] >>],
       [metric |-> "pm10", alternatives |-> << [literal |-> "pm10", word |-> FALSE],
                                               [literal |-> "particulate matter 10", word |-> FALSE],
                                               [literal |-> "dust", word |-> FALSE] >>],
       [metric |-> "no2", alternatives |-> << [literal |-> "no2", word |-> FALSE],
                                              [literal |-> "nitrogen dioxide", word |-> FALSE] >>],
       [metric |-> "so2", alternatives |-> << [literal |-> "so2", word |-> FALSE],
                                              [literal |-> "sulfur dioxide", word |-> FALSE] >>],
       [metric |-> "co", alternatives |-> << [literal |-> "co", word |-> TRUE],
                                             [literal |-> "carbon monoxide", word |-> FALSE] >>],
       [metric |-> "o3", alternatives |-> << [literal |-> "o3", word |-> FALSE],
                                             [literal |-> "ozone", word |-> FALSE] >>],
       [metric |-> "aqi", alternatives |-> << [literal |-> "aqi", word |-> FALSE],
                                              [literal |-> "air quality index", word |-> FALSE] >>] >>

\* re.search(pattern, task_text, re.IGNORECASE) for a metric pattern; low
\* is the lower-cased text.
SearchMetric(pattern, low) ==
    \E i \in 1..Len(pattern.alternatives) :
        LET alt == pattern.alternatives[i]
        IN  IF alt.word THEN ContainsWord(low, alt.literal)
            ELSE Contains(low, alt.literal)

RECURSIVE MetricsFrom(_, _)
MetricsFrom(low, n) ==
    IF n > Len(metric_patterns) THEN <<>>
    ELSE (IF SearchMetric(metric_patterns[n], low)
          THEN <<metric_patterns[n].metric>> ELSE <<>>)
         \o MetricsFrom(low, n + 1)

_extract_pollution_metrics(task_text) ==
    LET metrics == MetricsFrom(lower(task_text), 1)
    IN  IF metrics # <<>> THEN metrics ELSE << "pm2.5", "pm10", "no2" >>

\* The strategy with len(tools) >= 2 for > 2.
_determine_execution_strategy_AtLeastTwo(tools) ==
    IF Len(tools) >= 2 THEN "parallel"
    ELSE IF Len(tools) = 2 THEN "sequential"
    ELSE "single"

\* The strategy with the test for two tools first, as len(tools) >= 2.
_determine_execution_strategy_TwoFirst(tools) ==
    IF Len(tools) >= 2 THEN "sequential"
    ELSE IF Len(tools) > 2 THEN "parallel"
    ELSE "single"

_determine_execution_strategy(tools) ==
    IF Len(tools) > 2 THEN "parallel"
    ELSE IF Len(tools) = 2 THEN "sequential"
    ELSE "single"

-----------------------------------------------------------------------------
(* _get_tool_parameters                                                    *)

\* datetime.now().isoformat(): the reading of the clock.
Timestamp == now

_get_tool_parameters(tool_type, task_text, location, has_comparison) ==
    LET base_params == [task_context |-> task_text,
                        location |-> location,
                        timestamp |-> Timestamp]
    IN  IF tool_type = "environmental_data"
        THEN [task_context |-> base_params.task_context,
              location |-> base_params.location,
              timestamp |-> base_params.timestamp,
              include_comparison |-> has_comparison,
              metrics |-> _extract_pollution_metrics(lower(task_text)),
              data_source |-> "real_time_monitoring"]
        ELSE IF tool_type = "web_search"
        THEN [task_context |-> base_params.task_context,
              location |-> base_params.location,
              timestamp |-> base_params.timestamp,
              query |-> task_text,
              date_filter |-> IF has_comparison THEN "recent" ELSE "all",
              result_limit |-> 10]
        ELSE IF tool_type = "data_analysis"
        THEN [task_context |-> base_params.task_context,
              location |-> base_params.location,
              timestamp |-> base_params.timestamp,
              analysis_type |-> IF has_comparison THEN "comparative" ELSE "descriptive",
              include_visualization |-> TRUE]
        ELSE IF tool_type = "weather_data"
        THEN [task_context |-> base_params.task_context,
              location |-> base_params.location,
              timestamp |-> base_params.timestamp,
              include_forecast |-> TRUE,
              historical_data |-> has_comparison]
        ELSE base_params

-----------------------------------------------------------------------------
(* analyze_task                                                            *)

\* The selection loop searching the text as given, not lower-cased.
RECURSIVE SelectTools_CaseSensitive(_, _, _, _, _, _, _)
SelectTools_CaseSensitive(self, task_description, task_lower, location, has_comparison, n, sel) ==
    IF n > Len(tool_patterns[self]) THEN sel
    ELSE LET tool_type == tool_patterns[self][n].tool_type
             patterns == tool_patterns[self][n].patterns
         IN  SelectTools_CaseSensitive(self, task_description, task_lower, location,
                 has_comparison, n + 1,
                 IF AnySearch(patterns, task_description)
                 THEN [tools |-> Append(sel.tools, tool_type),
                       parameters |-> DictSet(sel.parameters, tool_type,
                           _get_tool_parameters(tool_type, task_description,
                                               location, has_comparison))]
                 ELSE sel)

\* The selection loop over self.tool_patterns.items(), from entry n on:
\* sel is [tools, parameters] as the earlier entries left them.
RECURSIVE SelectTools(_, _, _, _, _, _, _)
SelectTools(self, task_description, task_lower, location, has_comparison, n, sel) ==
    IF n > Len(tool_patterns[self]) THEN sel
    ELSE LET tool_type == tool_patterns[self][n].tool_type
             patterns == tool_patterns[self][n].patterns
         IN  SelectTools(self, task_description, task_lower, location, has_comparison, n + 1,
                 IF AnySearch(patterns, task_lower)
                 THEN [tools |-> Append(sel.tools, tool_type),
                       parameters |-> DictSet(sel.parameters, tool_type,
                           _get_tool_parameters(tool_type, task_description,
                                               location, has_comparison))]
                 ELSE sel)

\* analyze_task without its fallback.
EnsureOneTool_NoFallback(sel, task_description, has_comparison) == sel

\* The fallback with date_filter "all" whatever the comparison.
EnsureOneTool_AllDates(sel, task_description, has_comparison) ==
    IF sel.tools = <<>>
    THEN [tools |-> Append(sel.tools, "web_search"),
          parameters |-> DictSet(sel.parameters, "web_search",
              [query |-> task_description, date_filter |-> "all"])]
    ELSE sel

\* "Ensure at least one tool is selected"
EnsureOneTool(sel, task_description, has_comparison) ==
    IF sel.tools = <<>>
    THEN [tools |-> Append(sel.tools, "web_search"),
          parameters |-> DictSet(sel.parameters, "web_search",
              [query |-> task_description,
               date_filter |-> IF has_comparison THEN "recent" ELSE "all"])]
    ELSE sel

\* The injection with len(selected_tools) >= 1 for > 1.
AddAnalysisTool_AtLeastOne(sel) ==
    IF Len(sel.tools) >= 1 /\ ~InList(sel.tools, "data_analysis")
    THEN [tools |-> Append(sel.tools, "data_analysis"),
          parameters |-> DictSet(sel.parameters, "data_analysis",
              [analysis_type |-> "comparative"])]
    ELSE sel

\* The injection with len(selected_tools) > 2 for > 1.
AddAnalysisTool_MoreThanTwo(sel) ==
    IF Len(sel.tools) > 2 /\ ~InList(sel.tools, "data_analysis")
    THEN [tools |-> Append(sel.tools, "data_analysis"),
          parameters |-> DictSet(sel.parameters, "data_analysis",
              [analysis_type |-> "comparative"])]
    ELSE sel

\* The injection without its parameters entry.
AddAnalysisTool_NoParameters(sel) ==
    IF Len(sel.tools) > 1 /\ ~InList(sel.tools, "data_analysis")
    THEN [tools |-> Append(sel.tools, "data_analysis"),
          parameters |-> sel.parameters]
    ELSE sel

\* The injection with analysis_type "descriptive".
AddAnalysisTool_Descriptive(sel) ==
    IF Len(sel.tools) > 1 /\ ~InList(sel.tools, "data_analysis")
    THEN [tools |-> Append(sel.tools, "data_analysis"),
          parameters |-> DictSet(sel.parameters, "data_analysis",
              [analysis_type |-> "descriptive"])]
    ELSE sel

\* "Add analysis tool if multiple data sources"
AddAnalysisTool(sel) ==
    IF Len(sel.tools) > 1 /\ ~InList(sel.tools, "data_analysis")
    THEN [tools |-> Append(sel.tools, "data_analysis"),
          parameters |-> DictSet(sel.parameters, "data_analysis",
              [analysis_type |-> "comparative"])]
    ELSE sel

\* analyze_task with the strategy taken from the tools as they are before
\* the injection.
analyze_task_StrategyBeforeInjection(self, task_description) ==
    LET task_lower == lower(task_description)
        location == _extract_location(self, task_description)
        has_comparison == _detect_time_comparison(self, task_lower)
        complexity == _assess_complexity(task_description)
        ensured == EnsureOneTool(
                       SelectTools(self, task_description, task_lower, location,
                                   has_comparison, 1,
                                   [tools |-> <<>>, parameters |-> EmptyDict]),
                       task_description, has_comparison)
        selected == AddAnalysisTool(ensured)
    IN  [tools |-> selected.tools,
         parameters |-> selected.parameters,
         task_complexity |-> complexity,
         execution_strategy |-> _determine_execution_strategy(ensured.tools),
         extracted_context |-> [location |-> location,
                                has_comparison |-> has_comparison,
                                task_type |-> _classify_task_type(task_lower)]]

analyze_task(self, task_description) ==
    LET task_lower == lower(task_description)
        location == _extract_location(self, task_description)
        has_comparison == _detect_time_comparison(self, task_lower)
        complexity == _assess_complexity(task_description)
        selected == AddAnalysisTool(
                        EnsureOneTool(
                            SelectTools(self, task_description, task_lower, location,
                                        has_comparison, 1,
                                        [tools |-> <<>>, parameters |-> EmptyDict]),
                            task_description, has_comparison))
    IN  [tools |-> selected.tools,
         parameters |-> selected.parameters,
         task_complexity |-> complexity,
         execution_strategy |-> _determine_execution_strategy(selected.tools),
         extracted_context |-> [location |-> location,
                                has_comparison |-> has_comparison,
                                task_type |-> _classify_task_type(task_lower)]]

-----------------------------------------------------------------------------
(* The run: create_tool_dispatcher makes the dispatchers, and the caller  *)
(* asks them about its task, one call after the other, on any of them.     *)

NoCall == [dispatcher |-> "none"]

\* ordered_tools before get_tool_execution_order has returned.
NoOrder == << "none" >>

\* What create_tool_dispatcher leaves: the tables of the new instances.
InitDispatchers ==
    /\ tool_patterns = [d \in Dispatchers |-> InitialToolPatterns]
    /\ location_patterns = [d \in Dispatchers |-> InitialLocationPatterns]
    /\ time_patterns = [d \in Dispatchers |-> InitialTimePatterns]
    /\ now = 0
    /\ first = NoCall
    /\ last = NoCall
    /\ ordered_tools = NoOrder

-----------------------------------------------------------------------------
(* The flows: the objects as their constructors leave them.                *)

ToUpper ==
    [c \in LowerSet |->
        Char(UpperLetters, CHOOSE i \in 1..Len(LowerLetters) : Char(LowerLetters, i) = c)]

\* str.upper()
RECURSIVE upper(_)
upper(s) ==
    IF Len(s) = 0 THEN ""
    ELSE IF Len(s) = 1 THEN (IF s \in LowerSet THEN ToUpper[s] ELSE s)
    ELSE LET half == Len(s) \div 2
         IN  upper(SubSeq(s, 1, half)) \o upper(SubSeq(s, half + 1, Len(s)))

\* str.startswith(prefix)
startswith(s, prefix) ==
    Len(s) >= Len(prefix) /\ SubSeq(s, 1, Len(prefix)) = prefix

\* dict.get(key, default)
Get(dict, key, default) == IF key \in DOMAIN dict THEN dict[key] ELSE default

\* No exception is propagating.
NoException == [class |-> "", message |-> ""]

\* The locals of get_real_human_input and get_strategic_human_input before
\* the first read; they are gone when the call returns.
NoInput == [user_input |-> "", reads |-> 0]

\* InnerTeamFlow(team_name), with its human_proxy (decision_history) and
\* the call of execute_task on it (pc and the locals of the call).
InnerTeamFlow(team_name) ==
    [team_name |-> team_name,
     human_interventions |-> <<>>,
     tool_executions |-> <<>>,
     tasks_completed |-> 0,
     decision_history |-> <<>>,
     pc |-> "none",
     task_description |-> "",
     research_plan |-> FALSE,
     input |-> NoInput,
     human_response |-> "",
     research_result |-> EmptyDict,
     result |-> EmptyDict,
     raised |-> NoException]

\* self.inner_teams, in the order of the dict.
TeamNames == << "team_alpha", "team_beta", "team_gamma" >>

TeamSet == {TeamNames[i] : i \in 1..Len(TeamNames)}

\* OuterTeamFlow(), with its human_proxy and the call of coordinate_project
\* on it (pc and the locals of the call and of the phase it is in).
OuterTeamFlow ==
    [strategic_decisions |-> <<>>,
     projects_coordinated |-> 0,
     active_projects |-> <<>>,
     human_proxy |-> [strategic_decisions |-> <<>>, coordination_approvals |-> <<>>],
     pc |-> "idle",
     project_tasks |-> <<>>,
     project_id |-> "",
     phase |-> "",
     plans |-> {},
     input |-> NoInput,
     human_decision |-> "",
     tools_called |-> <<>>,
     coordination_result |-> EmptyDict,
     allocation_result |-> EmptyDict,
     task_assignments |-> <<>>,
     execution_futures |-> <<>>,
     waiting |-> 0,
     team_results |-> EmptyDict,
     completed_teams |-> 0,
     execution_summary |-> EmptyDict,
     validation_result |-> EmptyDict,
     result |-> EmptyDict,
     raised |-> NoException]

\* The locals of a caller that makes no call.
NoFrame == [op |-> "none"]

Init ==
    /\ InitDispatchers
    /\ task \in Tasks
    /\ tools_arg = <<>>
    /\ frames = [c \in Callers |-> NoFrame]
    /\ outer_flow = OuterTeamFlow
    /\ inner_teams = [team_name \in TeamSet |-> InnerTeamFlow(team_name)]

\* A call that removes the categories it selected from self.tool_patterns.
AnalyzeTask_ConsumesPatterns(self) ==
    /\ now < MaxClock
    /\ LET call == [dispatcher |-> self, task |-> task,
                    plan |-> analyze_task(self, task)]
       IN  /\ last' = call
           /\ first' = IF first = NoCall THEN call ELSE first
           /\ tool_patterns' = [tool_patterns EXCEPT ![self] =
                  SelectSeq(@, LAMBDA entry : ~InList(call.plan.tools, entry.tool_type))]
    /\ now' = now + 1
    /\ UNCHANGED <<location_patterns, time_patterns, task, tools_arg, ordered_tools,
                   frames, outer_flow, inner_teams>>

\* One call self.analyze_task(task); the clock moves on by one tick.  The
\* call assigns nothing to self.
AnalyzeTask(self) ==
    /\ now < MaxClock
    /\ LET call == [dispatcher |-> self, task |-> task,
                    plan |-> analyze_task(self, task)]
       IN  /\ last' = call
           /\ first' = IF first = NoCall THEN call ELSE first
    /\ now' = now + 1
    /\ UNCHANGED <<tool_patterns, location_patterns, time_patterns, task,
                   tools_arg, ordered_tools, frames, outer_flow, inner_teams>>

Next == \E self \in Dispatchers : AnalyzeTask(self)

Spec == Init /\ [][Next]_vars

-----------------------------------------------------------------------------
(* The run of one call: the caller asks one dispatcher about its task,     *)
(* once.                                                                   *)

AnalyzeOnce(self) ==
    /\ first = NoCall
    /\ AnalyzeTask(self)

NextCall == \E self \in Dispatchers : AnalyzeOnce(self)

SpecCall == Init /\ [][NextCall]_vars

-----------------------------------------------------------------------------
(* get_tool_execution_order                                                *)

\* The priority list in the order of the tool_patterns keys.
priority_order_AsToolPatterns ==
    << "environmental_data", "web_search", "market_data", "weather_data",
       "data_analysis" >>

priority_order ==
    << "environmental_data", "web_search", "weather_data", "market_data",
       "data_analysis" >>

\* for tool in priority_order: if tool in tools: ordered_tools.append(tool)
RECURSIVE AppendPriorityTools(_, _, _)
AppendPriorityTools(tools, n, ordered) ==
    IF n > Len(priority_order) THEN ordered
    ELSE AppendPriorityTools(tools, n + 1,
             IF InList(tools, priority_order[n])
             THEN Append(ordered, priority_order[n])
             ELSE ordered)

\* The second loop with `not in priority_order` for `not in ordered_tools`.
RECURSIVE AppendRemainingTools_NotInPriority(_, _, _)
AppendRemainingTools_NotInPriority(tools, n, ordered) ==
    IF n > Len(tools) THEN ordered
    ELSE AppendRemainingTools_NotInPriority(tools, n + 1,
             IF ~InList(priority_order, tools[n])
             THEN Append(ordered, tools[n])
             ELSE ordered)

\* for tool in tools: if tool not in ordered_tools: ordered_tools.append(tool)
RECURSIVE AppendRemainingTools(_, _, _)
AppendRemainingTools(tools, n, ordered) ==
    IF n > Len(tools) THEN ordered
    ELSE AppendRemainingTools(tools, n + 1,
             IF ~InList(ordered, tools[n])
             THEN Append(ordered, tools[n])
             ELSE ordered)

get_tool_execution_order(tools) ==
    AppendRemainingTools(tools, 1, AppendPriorityTools(tools, 1, <<>>))

\* The names a caller's list is made of: the five categories and two
\* names that are not in the priority list.
ToolNames ==
    { "environmental_data", "web_search", "market_data", "weather_data",
      "data_analysis", "report_generation", "custom_tool" }

RECURSIVE ListsOfLength(_)
ListsOfLength(n) ==
    IF n = 0 THEN {<<>>}
    ELSE {Append(list, name) : list \in ListsOfLength(n - 1), name \in ToolNames}

ToolLists == UNION {ListsOfLength(n) : n \in 0..MaxTools}

InitOrder ==
    /\ InitDispatchers
    /\ frames = [c \in Callers |-> NoFrame]
    /\ outer_flow = OuterTeamFlow
    /\ inner_teams = [team_name \in TeamSet |-> InnerTeamFlow(team_name)]
    /\ task = ""
    /\ tools_arg \in ToolLists

\* One call self.get_tool_execution_order(tools_arg).  The method builds a
\* new list and assigns nothing to self or to its argument.
GetToolExecutionOrder(self) ==
    /\ ordered_tools = NoOrder
    /\ ordered_tools' = get_tool_execution_order(tools_arg)
    /\ UNCHANGED <<tool_patterns, location_patterns, time_patterns, now, task,
                   first, last, tools_arg, frames, outer_flow, inner_teams>>

NextOrder == \E self \in Dispatchers : GetToolExecutionOrder(self)

SpecOrder == InitOrder /\ [][NextOrder]_vars

-----------------------------------------------------------------------------
(* Several callers on one dispatcher: each call keeps its intermediate     *)
(* values in locals (the frame of the call), reads self's tables, and the  *)
(* calls' steps interleave.                                                *)

\* The tasks and lists the callers of the shared dispatcher ask about.
SharedTasks ==
    { "", "Show me the data", "Analyze pollution in Delhi",
      "stock market weather conditions" }

SharedLists ==
    { << "data_analysis", "web_search", "environmental_data" >>,
      << "custom_tool", "web_search", "custom_tool" >> }

\* The frame of a call at its entry.  given is the caller's list as it was
\* handed over; tools is the same list object as the call sees it.
AnalyzeFrame(task_description) ==
    [op |-> "analyze_task", pc |-> "context", self |-> "d1",
     task_description |-> task_description, tools |-> <<>>, given |-> <<>>,
     location |-> "", has_comparison |-> FALSE, complexity |-> "",
     selected |-> [tools |-> <<>>, parameters |-> EmptyDict],
     ordered_tools |-> <<>>, result |-> <<>>]

OrderFrame(tools) ==
    [op |-> "get_tool_execution_order", pc |-> "priority", self |-> "d1",
     task_description |-> "", tools |-> tools, given |-> tools,
     location |-> "", has_comparison |-> FALSE, complexity |-> "",
     selected |-> [tools |-> <<>>, parameters |-> EmptyDict],
     ordered_tools |-> <<>>, result |-> <<>>]

EntryFrames ==
    {AnalyzeFrame(t) : t \in SharedTasks} \cup {OrderFrame(l) : l \in SharedLists}

InitShared ==
    /\ InitDispatchers
    /\ task = ""
    /\ tools_arg = <<>>
    /\ frames \in [Callers -> EntryFrames]
    /\ outer_flow = OuterTeamFlow
    /\ inner_teams = [team_name \in TeamSet |-> InnerTeamFlow(team_name)]

\* The step of caller c from pc to next, with the locals it assigns.
Step(c, op, pc, frame) ==
    /\ frames[c].op = op
    /\ frames[c].pc = pc
    /\ frames' = [frames EXCEPT ![c] = frame]

\* location, has_comparison, complexity = ... (the context information)
ExtractContext(c) ==
    LET f == frames[c]
    IN  /\ Step(c, "analyze_task", "context",
                [f EXCEPT !.pc = "select",
                          !.location = _extract_location(f.self, f.task_description),
                          !.has_comparison =
                              _detect_time_comparison(f.self, lower(f.task_description)),
                          !.complexity = _assess_complexity(f.task_description)])
        /\ UNCHANGED <<tool_patterns, location_patterns, time_patterns, now, task,
                       first, last, tools_arg, ordered_tools, outer_flow, inner_teams>>

\* The selection loop that also removes what it selected from
\* self.tool_patterns.
SelectToolsStep_ConsumesPatterns(c) ==
    LET f == frames[c]
        selected == SelectTools(f.self, f.task_description, lower(f.task_description),
                                f.location, f.has_comparison, 1, f.selected)
    IN  /\ Step(c, "analyze_task", "select",
                [f EXCEPT !.pc = "ensure", !.selected = selected])
        /\ tool_patterns' = [tool_patterns EXCEPT ![f.self] =
               SelectSeq(@, LAMBDA entry : ~InList(selected.tools, entry.tool_type))]
        /\ now' = now + 1
        /\ UNCHANGED <<location_patterns, time_patterns, task, first, last,
                       tools_arg, ordered_tools, outer_flow, inner_teams>>

\* for tool_type, patterns in self.tool_patterns.items(): ...  The loop
\* reads the clock for the timestamps, and the clock moves on.
SelectToolsStep(c) ==
    LET f == frames[c]
    IN  /\ Step(c, "analyze_task", "select",
                [f EXCEPT !.pc = "ensure",
                          !.selected =
                              SelectTools(f.self, f.task_description,
                                          lower(f.task_description), f.location,
                                          f.has_comparison, 1, f.selected)])
        /\ now' = now + 1
        /\ UNCHANGED <<tool_patterns, location_patterns, time_patterns, task,
                       first, last, tools_arg, ordered_tools, outer_flow, inner_teams>>

\* if not selected_tools: ...
EnsureOneToolStep(c) ==
    LET f == frames[c]
    IN  /\ Step(c, "analyze_task", "ensure",
                [f EXCEPT !.pc = "inject",
                          !.selected = EnsureOneTool(f.selected, f.task_description,
                                                     f.has_comparison)])
        /\ UNCHANGED <<tool_patterns, location_patterns, time_patterns, now, task,
                       first, last, tools_arg, ordered_tools, outer_flow, inner_teams>>

\* if len(selected_tools) > 1 and 'data_analysis' not in selected_tools: ...
AddAnalysisToolStep(c) ==
    LET f == frames[c]
    IN  /\ Step(c, "analyze_task", "inject",
                [f EXCEPT !.pc = "return", !.selected = AddAnalysisTool(f.selected)])
        /\ UNCHANGED <<tool_patterns, location_patterns, time_patterns, now, task,
                       first, last, tools_arg, ordered_tools, outer_flow, inner_teams>>

\* return {...}
ReturnPlan(c) ==
    LET f == frames[c]
    IN  /\ Step(c, "analyze_task", "return",
                [f EXCEPT !.pc = "done",
                          !.result =
                              [tools |-> f.selected.tools,
                               parameters |-> f.selected.parameters,
                               task_complexity |-> f.complexity,
                               execution_strategy |->
                                   _determine_execution_strategy(f.selected.tools),
                               extracted_context |->
                                   [location |-> f.location,
                                    has_comparison |-> f.has_comparison,
                                    task_type |->
                                        _classify_task_type(lower(f.task_description))]]])
        /\ UNCHANGED <<tool_patterns, location_patterns, time_patterns, now, task,
                       first, last, tools_arg, ordered_tools, outer_flow, inner_teams>>

\* The first loop of get_tool_execution_order, into the local ordered_tools.
OrderPriorityTools(c) ==
    LET f == frames[c]
    IN  /\ Step(c, "get_tool_execution_order", "priority",
                [f EXCEPT !.pc = "remaining",
                          !.ordered_tools = AppendPriorityTools(f.tools, 1, <<>>)])
        /\ UNCHANGED <<tool_patterns, location_patterns, time_patterns, now, task,
                       first, last, tools_arg, ordered_tools, outer_flow, inner_teams>>

\* The second loop, and return ordered_tools.
OrderRemainingTools(c) ==
    LET f == frames[c]
        ordered == AppendRemainingTools(f.tools, 1, f.ordered_tools)
    IN  /\ Step(c, "get_tool_execution_order", "remaining",
                [f EXCEPT !.pc = "done", !.ordered_tools = ordered,
                          !.result = ordered])
        /\ UNCHANGED <<tool_patterns, location_patterns, time_patterns, now, task,
                       first, last, tools_arg, ordered_tools, outer_flow, inner_teams>>

NextShared ==
    \E c \in Callers :
        \/ ExtractContext(c)
        \/ SelectToolsStep(c)
        \/ EnsureOneToolStep(c)
        \/ AddAnalysisToolStep(c)
        \/ ReturnPlan(c)
        \/ OrderPriorityTools(c)
        \/ OrderRemainingTools(c)

SpecShared == InitShared /\ [][NextShared]_vars

-----------------------------------------------------------------------------
(* The flows: OuterTeamFlow.coordinate_project with the human at the       *)
(* keyboard, and InnerTeamFlow.execute_task on the teams it runs.  One     *)
(* step runs the code up to the next read of the keyboard, the next await  *)
(* or the next return.  Timestamps, and the fields of a result that no     *)
(* later step reads, are left out.                                         *)

\* What the human types at a prompt: nothing, a sentence, an approval in
\* lower case with blanks around it, a rejection and a modification whose
\* texts mention approval, and an optimization request.
RawInputs ==
    { "", "I approve", " approve ", "REJECT: do not approve",
      "MODIFY: approve later", "OPTIMIZE: cost" }

\* The lists of tasks handed to coordinate_project.
RECURSIVE DefaultTasks(_)
DefaultTasks(n) ==
    IF n = 0 THEN <<>>
    ELSE Append(DefaultTasks(n - 1), "Default analysis task " \o Char(Digits, n + 1))

ProjectTaskLists == {DefaultTasks(n) : n \in 0..MaxProjectTasks}

\* The exceptions the steps raise.
EOFError == [class |-> "EOFError", message |-> "EOF when reading a line"]

NoCategorizeResponse ==
    [class |-> "AttributeError",
     message |-> "'InnerTeamUserProxy' object has no attribute '_categorize_response'"]

\* A handler that catches AttributeError only.
IsException_OnlyAttributeError(class) == class = "AttributeError"

\* isinstance(e, Exception), which `except Exception` tests: true of
\* AttributeError and EOFError, false of KeyboardInterrupt.
IsException(class) == class \in {"AttributeError", "EOFError"}

\* A test for the command anywhere in the response.
_is_valid_response_Anywhere(response) ==
    \E start \in {"APPROVE", "REJECT:", "MODIFY:", "OVERRIDE:"} :
        Contains(upper(response), start)

\* InnerTeamUserProxy._is_valid_response
_is_valid_response(response) ==
    \E start \in {"APPROVE", "REJECT:", "MODIFY:", "OVERRIDE:"} :
        startswith(upper(response), start)

\* OuterTeamUserProxy._is_valid_strategic_response
_is_valid_strategic_response(response) ==
    \E start \in {"APPROVE", "MODIFY:", "ESCALATE:", "REASSIGN:", "OPTIMIZE:",
                  "MONITOR:"} :
        startswith(upper(response), start)

\* OuterTeamUserProxy._categorize_strategic_response
_categorize_strategic_response(response) ==
    LET response_upper == upper(response)
    IN  IF startswith(response_upper, "APPROVE") THEN "STRATEGIC_APPROVAL"
        ELSE IF startswith(response_upper, "MODIFY") THEN "STRATEGIC_MODIFICATION"
        ELSE IF startswith(response_upper, "ESCALATE") THEN "ESCALATION"
        ELSE IF startswith(response_upper, "REASSIGN") THEN "REASSIGNMENT"
        ELSE IF startswith(response_upper, "OPTIMIZE") THEN "OPTIMIZATION_REQUEST"
        ELSE IF startswith(response_upper, "MONITOR") THEN "MONITORING_REQUEST"
        ELSE "OTHER"

\* The responses the loops return on KeyboardInterrupt.
DefaultApproval == "APPROVE - Default approval"

DefaultStrategicApproval ==
    "APPROVE - Default strategic approval for multi-team coordination"

(* InnerTeamFlow.execute_task *)

\* except Exception as e: return error_result; another exception leaves
\* the call.
execute_task_except(self, e) ==
    IF IsException(e.class)
    THEN [self EXCEPT !.pc = "returned",
                      !.input = NoInput,
                      !.result = [error |-> "Task execution error: " \o e.message,
                                  team_name |-> self.team_name,
                                  task |-> self.task_description]]
    ELSE [self EXCEPT !.pc = "raised", !.input = NoInput, !.raised = e]

\* The end of get_real_human_input: one record, and the response returned
\* to _enhanced_research_phase.
ReturnHumanInput(self, user_input) ==
    [self EXCEPT !.decision_history =
                     Append(@, [prompt |-> "research_plan", response |-> user_input]),
                 !.human_response = user_input,
                 !.input = NoInput,
                 !.pc = "record"]

\* research_plan = self.research_agent.create_research_plan(task_description),
\* up to the prompt of get_real_human_input.
CreateResearchPlan(team_name) ==
    /\ inner_teams[team_name].pc = "research_plan"
    /\ inner_teams' = [inner_teams EXCEPT ![team_name].research_plan = TRUE,
                                          ![team_name].pc = "human_input"]
    /\ UNCHANGED <<dispatcherVars, outer_flow>>

\* One turn of the loop of get_real_human_input: a line is read and
\* stripped; an empty or invalid one is asked for again.
GetRealHumanInput(team_name, raw) ==
    LET self == inner_teams[team_name]
        user_input == strip(raw)
    IN  /\ self.pc = "human_input"
        /\ IF user_input = "" \/ ~_is_valid_response(user_input)
           THEN /\ self.input.reads < MaxReads
                /\ inner_teams' =
                       [inner_teams EXCEPT ![team_name].input =
                            [user_input |-> user_input, reads |-> @.reads + 1]]
           ELSE inner_teams' =
                    [inner_teams EXCEPT ![team_name] = ReturnHumanInput(self, user_input)]
        /\ UNCHANGED <<dispatcherVars, outer_flow>>

\* except KeyboardInterrupt: the default approval.
HumanInterrupts(team_name) ==
    /\ inner_teams[team_name].pc = "human_input"
    /\ inner_teams' =
           [inner_teams EXCEPT ![team_name] = ReturnHumanInput(@, DefaultApproval)]
    /\ UNCHANGED <<dispatcherVars, outer_flow>>

\* input() at the end of the input: EOFError leaves the loop and the phase.
HumanInputEnds(team_name) ==
    /\ inner_teams[team_name].pc = "human_input"
    /\ inner_teams' = [inner_teams EXCEPT ![team_name] = execute_task_except(@, EOFError)]
    /\ UNCHANGED <<dispatcherVars, outer_flow>>

\* self._record_enhanced_intervention(...): InnerTeamUserProxy has no
\* _categorize_response, so building the record raises AttributeError and
\* nothing is appended.
RecordEnhancedIntervention(team_name) ==
    /\ inner_teams[team_name].pc = "record"
    /\ inner_teams' =
           [inner_teams EXCEPT ![team_name] = execute_task_except(@, NoCategorizeResponse)]
    /\ UNCHANGED <<dispatcherVars, outer_flow>>

(* OuterTeamFlow.coordinate_project *)

\* except Exception as e: return error_result
coordinate_project_except(self, e) ==
    IF IsException(e.class)
    THEN [self EXCEPT !.pc = "returned",
                      !.input = NoInput,
                      !.result = [error |-> "Project coordination error: " \o e.message,
                                  project_id |-> self.project_id,
                                  tasks |-> self.project_tasks]]
    ELSE [self EXCEPT !.pc = "raised", !.input = NoInput, !.raised = e]

\* The first argument of _record_strategic_decision in each phase.
DecisionType(phase) ==
    CASE phase = "coordination" -> "team_coordination"
      [] phase = "allocation" -> "resource_allocation"
      [] phase = "validation" -> "final_strategic_validation"

\* "coordination" in prompt.lower(), of the three prompts.
PromptMentionsCoordination(phase) == phase \in {"coordination", "validation"}

\* The end of get_strategic_human_input: one record, and the decision
\* returned to the phase.
ReturnStrategicInput(self, strategic_input, tracked) ==
    [self EXCEPT
        !.human_proxy =
            [strategic_decisions |->
                 Append(@.strategic_decisions,
                        [context |-> self.phase,
                         decision |-> strategic_input,
                         decision_type |-> _categorize_strategic_response(strategic_input)]),
             coordination_approvals |->
                 IF tracked
                 THEN Append(@.coordination_approvals,
                             [coordination_type |-> "team_coordination",
                              approval |-> strategic_input])
                 ELSE @.coordination_approvals],
        !.human_decision = strategic_input,
        !.input = NoInput,
        !.pc = "record"]

\* The entry of coordinate_project.
CoordinateProject(project_tasks) ==
    /\ outer_flow.pc = "idle"
    /\ outer_flow' = [outer_flow EXCEPT !.project_tasks = project_tasks,
                                        !.project_id = "PROJECT_1",
                                        !.active_projects = Append(@, "PROJECT_1"),
                                        !.phase = "coordination",
                                        !.pc = "plan"]
    /\ UNCHANGED <<dispatcherVars, inner_teams>>

\* The plan of a phase, up to the prompt of get_strategic_human_input:
\* coordinate_teams(teams_status), allocate_resources(resource_requests) or
\* the strategic summary.
StrategicPlan(phase) ==
    /\ outer_flow.pc = "plan"
    /\ outer_flow.phase = phase
    /\ outer_flow' = [outer_flow EXCEPT !.plans = @ \cup {phase}, !.pc = "input"]
    /\ UNCHANGED <<dispatcherVars, inner_teams>>

\* One turn of the loop of get_strategic_human_input.
GetStrategicHumanInput(raw) ==
    LET strategic_input == strip(raw)
    IN  /\ outer_flow.pc = "input"
        /\ IF strategic_input = "" \/ ~_is_valid_strategic_response(strategic_input)
           THEN /\ outer_flow.input.reads < MaxReads
                /\ outer_flow' =
                       [outer_flow EXCEPT !.input =
                            [user_input |-> strategic_input, reads |-> @.reads + 1]]
           ELSE outer_flow' =
                    ReturnStrategicInput(outer_flow, strategic_input,
                        /\ startswith(upper(strategic_input), "APPROVE")
                        /\ PromptMentionsCoordination(outer_flow.phase))
        /\ UNCHANGED <<dispatcherVars, inner_teams>>

\* except KeyboardInterrupt: the default strategic approval.
StrategistInterrupts ==
    /\ outer_flow.pc = "input"
    /\ outer_flow' = ReturnStrategicInput(outer_flow, DefaultStrategicApproval, FALSE)
    /\ UNCHANGED <<dispatcherVars, inner_teams>>

\* input() at the end of the input: EOFError leaves the loop and the phase.
StrategicInputEnds ==
    /\ outer_flow.pc = "input"
    /\ outer_flow' = coordinate_project_except(outer_flow, EOFError)
    /\ UNCHANGED <<dispatcherVars, inner_teams>>

\* self._record_strategic_decision(...)
RecordStrategicDecision ==
    /\ outer_flow.pc = "record"
    /\ outer_flow' =
           [outer_flow EXCEPT
               !.strategic_decisions =
                   Append(@, [type |-> DecisionType(outer_flow.phase),
                              decision |-> outer_flow.human_decision]),
               !.pc = "decide"]
    /\ UNCHANGED <<dispatcherVars, inner_teams>>

\* Step 4 of _strategic_coordination_phase, and the return of the phase.
StrategicCoordinationDecide ==
    LET human_decision == outer_flow.human_decision
    IN  /\ outer_flow.pc = "decide"
        /\ outer_flow.phase = "coordination"
        /\ outer_flow' =
               [outer_flow EXCEPT
                   !.tools_called =
                       IF Contains(upper(human_decision), "APPROVE")
                       THEN Append(@, "team_coordination_analysis_tool")
                       ELSE @,
                   !.coordination_result =
                       [status |->
                            IF Contains(upper(human_decision), "APPROVE")
                            THEN "strategically_approved"
                            ELSE IF Contains(upper(human_decision), "OPTIMIZE")
                            THEN "optimization_requested"
                            ELSE "modification_requested",
                        human_decision |-> human_decision],
                   !.phase = "allocation",
                   !.pc = "plan"]
        /\ UNCHANGED <<dispatcherVars, inner_teams>>

\* Step 4 of _intelligent_resource_allocation_phase, and its return.
ResourceAllocationDecide ==
    LET human_decision == outer_flow.human_decision
    IN  /\ outer_flow.pc = "decide"
        /\ outer_flow.phase = "allocation"
        /\ outer_flow' =
               [outer_flow EXCEPT
                   !.tools_called =
                       IF Contains(upper(human_decision), "APPROVE")
                       THEN Append(@, "resource_allocation_optimization_tool")
                       ELSE @,
                   !.allocation_result =
                       [status |->
                            IF Contains(upper(human_decision), "APPROVE")
                            THEN "strategically_optimized"
                            ELSE IF Contains(upper(human_decision), "MONITOR")
                            THEN "monitoring_enhanced"
                            ELSE "reallocation_requested",
                        human_decision |-> human_decision],
                   !.phase = "execution",
                   !.pc = "start"]
        /\ UNCHANGED <<dispatcherVars, inner_teams>>

\* The teams that get a task: the i-th team gets project_tasks[i].
Assigned(project_tasks) ==
    SubSeq(TeamNames, 1,
           IF Len(project_tasks) < Len(TeamNames) THEN Len(project_tasks)
           ELSE Len(TeamNames))

\* Steps 1 and 2 of _enhanced_parallel_execution: the assignments, and
\* future = team_flow.execute_task(task) for each, which makes the
\* coroutine object and runs nothing of it.
StartParallelExecution ==
    LET assigned == Assigned(outer_flow.project_tasks)
    IN  /\ outer_flow.pc = "start"
        /\ outer_flow' = [outer_flow EXCEPT !.task_assignments = assigned,
                                            !.execution_futures = assigned,
                                            !.waiting = 1,
                                            !.pc = "wait"]
        /\ inner_teams' =
               [team_name \in TeamSet |->
                   IF \E i \in 1..Len(assigned) : assigned[i] = team_name
                   THEN [inner_teams[team_name] EXCEPT
                            !.pc = "created",
                            !.task_description =
                                outer_flow.project_tasks[
                                    CHOOSE i \in 1..Len(assigned) : assigned[i] = team_name]]
                   ELSE inner_teams[team_name]]
        /\ UNCHANGED dispatcherVars

\* result = await future: the coroutine of the next team starts to run,
\* and coordinate_project runs on when it has ended.
AwaitTeam ==
    LET team_name == outer_flow.execution_futures[outer_flow.waiting]
    IN  /\ outer_flow.pc = "wait"
        /\ outer_flow.waiting <= Len(outer_flow.execution_futures)
        /\ outer_flow' = [outer_flow EXCEPT !.pc = "awaiting"]
        /\ inner_teams' = [inner_teams EXCEPT ![team_name].pc = "research_plan"]
        /\ UNCHANGED dispatcherVars

\* The awaited execute_task has ended: the result is kept and the team is
\* counted; an exception out of it gives the team final_status "failed".
TeamCompleted ==
    LET team_name == outer_flow.execution_futures[outer_flow.waiting]
        team_flow == inner_teams[team_name]
    IN  /\ outer_flow.pc = "awaiting"
        /\ team_flow.pc \in {"returned", "raised"}
        /\ outer_flow' =
               IF team_flow.pc = "returned"
               THEN [outer_flow EXCEPT
                        !.team_results = DictSet(@, team_name, team_flow.result),
                        !.completed_teams = @ + 1,
                        !.waiting = @ + 1,
                        !.pc = "wait"]
               ELSE IF IsException(team_flow.raised.class)
               THEN [outer_flow EXCEPT
                        !.team_results =
                            DictSet(@, team_name,
                                    [error |-> team_flow.raised.message,
                                     final_status |-> "failed",
                                     team_name |-> team_name]),
                        !.waiting = @ + 1,
                        !.pc = "wait"]
               ELSE coordinate_project_except(outer_flow, team_flow.raised)
        /\ UNCHANGED <<dispatcherVars, inner_teams>>

\* Step 4 of _enhanced_parallel_execution and the return of the phase.
\* success_rate is the percentage in whole numbers.
CompileExecutionSummary ==
    LET total_teams == Len(outer_flow.task_assignments)
    IN  /\ outer_flow.pc = "wait"
        /\ outer_flow.waiting > Len(outer_flow.execution_futures)
        /\ outer_flow' =
               [outer_flow EXCEPT
                   !.execution_summary =
                       [total_teams |-> total_teams,
                        completed_teams |-> outer_flow.completed_teams,
                        success_rate |->
                            IF total_teams > 0
                            THEN (outer_flow.completed_teams * 100) \div total_teams
                            ELSE 0],
                   !.phase = "validation",
                   !.pc = "plan"]
        /\ UNCHANGED <<dispatcherVars, inner_teams>>

\* Step 3 of _comprehensive_strategic_validation, then
\* _compile_strategic_project_results, _update_coordination_metrics and
\* the return of coordinate_project.
StrategicValidationDecide ==
    LET human_decision == outer_flow.human_decision
        validation ==
            IF Contains(upper(human_decision), "APPROVE")
            THEN [status |-> "strategically_validated", project_approved |-> TRUE]
            ELSE IF Contains(upper(human_decision), "ESCALATE")
            THEN [status |-> "escalated"]
            ELSE [status |-> "strategic_revision_requested"]
    IN  /\ outer_flow.pc = "decide"
        /\ outer_flow.phase = "validation"
        /\ outer_flow' =
               [outer_flow EXCEPT
                   !.validation_result = validation,
                   !.result =
                       [project_id |-> outer_flow.project_id,
                        project_status |-> Get(validation, "status", "completed"),
                        strategic_approval |-> Get(validation, "project_approved", FALSE),
                        strategic_decisions |-> Len(outer_flow.strategic_decisions),
                        execution_summary |-> outer_flow.execution_summary],
                   !.projects_coordinated = @ + 1,
                   !.pc = "returned"]
        /\ UNCHANGED <<dispatcherVars, inner_teams>>

InitFlow ==
    /\ InitDispatchers
    /\ task = ""
    /\ tools_arg = <<>>
    /\ frames = [c \in Callers |-> NoFrame]
    /\ outer_flow = OuterTeamFlow
    /\ inner_teams = [team_name \in TeamSet |-> InnerTeamFlow(team_name)]

NextFlow ==
    \/ \E project_tasks \in ProjectTaskLists : CoordinateProject(project_tasks)
    \/ \E phase \in {"coordination", "allocation", "validation"} : StrategicPlan(phase)
    \/ \E raw \in RawInputs : GetStrategicHumanInput(raw)
    \/ StrategistInterrupts
    \/ StrategicInputEnds
    \/ RecordStrategicDecision
    \/ StrategicCoordinationDecide
    \/ ResourceAllocationDecide
    \/ StartParallelExecution
    \/ AwaitTeam
    \/ \E team_name \in TeamSet :
           \/ CreateResearchPlan(team_name)
           \/ \E raw \in RawInputs : GetRealHumanInput(team_name, raw)
           \/ HumanInterrupts(team_name)
           \/ HumanInputEnds(team_name)
           \/ RecordEnhancedIntervention(team_name)
    \/ TeamCompleted
    \/ CompileExecutionSummary
    \/ StrategicValidationDecide

SpecFlow == InitFlow /\ [][NextFlow]_vars

-----------------------------------------------------------------------------
(* What the claims speak about: the call that returned last, its input and *)
(* its plan, and the categories whose patterns occur in the input.         *)

Returned == last # NoCall

\* The set of the entries of a list.
Entries(list) == {list[i] : i \in 1..Len(list)}

NoDuplicates(list) == \A i, j \in 1..Len(list) : list[i] = list[j] => i = j

\* Position of a category in the category definition order.
DefinitionOrder ==
    << "environmental_data", "web_search", "market_data", "weather_data",
       "data_analysis" >>

Position(list, x) == CHOOSE i \in 1..Len(list) : list[i] = x

\* The configured patterns of a category.
PatternsOf(category) ==
    InitialToolPatterns[Position(DefinitionOrder, category)].patterns

\* The category has a pattern that occurs in the text.
PatternMatches(category, low) ==
    LET patterns == PatternsOf(category)
    IN  \E i \in 1..Len(patterns) : Contains(low, patterns[i])

\* The categories that have a pattern in the lower-cased text.
MatchedCategories(text) ==
    LET low == lower(text)
    IN  {c \in Entries(DefinitionOrder) : PatternMatches(c, low)}

\* The selection fields of a plan.
Selection(plan) ==
    [tools |-> plan.tools,
     task_complexity |-> plan.task_complexity,
     execution_strategy |-> plan.execution_strategy,
     extracted_context |-> plan.extracted_context]

-----------------------------------------------------------------------------
\* C1: for every task string, the tools list analyze_task returns is not
\* empty.
C1_ToolsNeverEmpty ==
    Returned => Len(last.plan.tools) >= 1

\* C1's case: a task that matches no pattern got its plan by the fallback.
C1_Witness ==
    /\ Returned
    /\ MatchedCategories(last.task) = {}
    /\ last.plan.tools # <<>>

\* C2: a task string that matches no pattern of any category gets
\* tools = [web_search], one element, and execution_strategy = single.
C2_NoMatchFallsBackToWebSearch ==
    (Returned /\ MatchedCategories(last.task) = {}) =>
        /\ last.plan.tools = << "web_search" >>
        /\ last.plan.execution_strategy = "single"

\* C2's case: a non-empty task without any pattern was analysed.
C2_Witness ==
    /\ Returned
    /\ last.task = "Show me the data"
    /\ MatchedCategories(last.task) = {}
    /\ last.plan.tools = << "web_search" >>

\* C3: in every returned plan, more than one tool implies that
\* data_analysis is among the tools.
C3_SeveralToolsIncludeAnalysis ==
    (Returned /\ Len(last.plan.tools) > 1) =>
        "data_analysis" \in Entries(last.plan.tools)

\* C3's case: two categories other than data_analysis matched, and
\* data_analysis was appended.
C3_Witness ==
    /\ Returned
    /\ Cardinality(MatchedCategories(last.task)) = 2
    /\ "data_analysis" \notin MatchedCategories(last.task)
    /\ Len(last.plan.tools) = 3
    /\ last.plan.tools[3] = "data_analysis"

\* C4: a task whose text matches the patterns of at least two categories
\* gets data_analysis among its tools, and the strategy parallel when the
\* final number of tools exceeds 2, sequential otherwise.
C4_TwoMatchesGetAnalysisAndStrategy ==
    (Returned /\ Cardinality(MatchedCategories(last.task)) >= 2) =>
        /\ "data_analysis" \in Entries(last.plan.tools)
        /\ last.plan.execution_strategy =
               IF Len(last.plan.tools) > 2 THEN "parallel" ELSE "sequential"

\* C4's case: exactly two categories matched, data_analysis one of them,
\* and the plan of two tools is sequential.
C4_Witness ==
    /\ Returned
    /\ Cardinality(MatchedCategories(last.task)) = 2
    /\ "data_analysis" \in MatchedCategories(last.task)
    /\ Len(last.plan.tools) = 2
    /\ last.plan.execution_strategy = "sequential"

\* C5: in every returned plan the keys of parameters are the entries of
\* tools, each tool once: every tool, also the fallback and the injected
\* one, has its entry, and no entry is for a tool that is not in tools.
C5_ParametersKeysAreTools ==
    Returned =>
        /\ DOMAIN last.plan.parameters = Entries(last.plan.tools)
        /\ NoDuplicates(last.plan.tools)

\* C5's case: a plan with a pattern-matched and an injected tool.
C5_Witness ==
    /\ Returned
    /\ "data_analysis" \notin MatchedCategories(last.task)
    /\ "data_analysis" \in DOMAIN last.plan.parameters
    /\ Cardinality(DOMAIN last.plan.parameters) = 3

\* C6: the strategy is parallel iff the final tools list has more than 2
\* entries, sequential iff exactly 2, single iff exactly 1.
C6_StrategyFollowsFinalToolCount ==
    Returned =>
        /\ last.plan.execution_strategy = "parallel" <=> Len(last.plan.tools) > 2
        /\ last.plan.execution_strategy = "sequential" <=> Len(last.plan.tools) = 2
        /\ last.plan.execution_strategy = "single" <=> Len(last.plan.tools) = 1

\* C6's case: two matched categories became three tools by the injection,
\* and the strategy is the one of three tools.
C6_Witness ==
    /\ Returned
    /\ Cardinality(MatchedCategories(last.task)) = 2
    /\ Len(last.plan.tools) = 3
    /\ last.plan.execution_strategy = "parallel"

\* C7: a category is selected iff one of its patterns matches the
\* lower-cased text; tools lists the selected categories, without
\* duplicates, in definition order; a tool that is not selected is the
\* injected data_analysis, which comes last (or the fallback of a task
\* without any match, C2).
C7_ToolsAreMatchedCategoriesInOrder ==
    Returned =>
        LET tools == last.plan.tools
            matched == MatchedCategories(last.task)
        IN  /\ matched \subseteq Entries(tools)
            /\ NoDuplicates(tools)
            /\ \A i, j \in 1..Len(tools) :
                   (i < j /\ tools[i] \in matched /\ tools[j] \in matched) =>
                       Position(DefinitionOrder, tools[i]) < Position(DefinitionOrder, tools[j])
            /\ \A i \in 1..Len(tools) :
                   tools[i] \notin matched =>
                       \/ matched = {} /\ tools = << "web_search" >>
                       \/ i = Len(tools) /\ tools[i] = "data_analysis" /\ matched # {}

\* C7's case: the demonstration's task has a web_search pattern (research)
\* and market_data patterns (stock, market) under a capital letter.
C7_Witness ==
    /\ Returned
    /\ last.task = "Research stock market performance this quarter"
    /\ last.plan.tools = << "web_search", "market_data", "data_analysis" >>

C9_EmptyTaskGetsDefaults ==
    Returned =>
        /\ DOMAIN last.plan = {"tools", "parameters", "task_complexity",
                               "execution_strategy", "extracted_context"}
        /\ last.task = "" =>
               /\ last.plan.tools = << "web_search" >>
               /\ last.plan.task_complexity = "low"
               /\ last.plan.extracted_context.location = "global"

\* C9's case: the empty string was analysed.
C9_Witness ==
    /\ Returned
    /\ last.task = ""
    /\ last.plan.tools = << "web_search" >>

\* C10 (as claimed): the parameters entry of every tool of the plan, also
\* of a fallback web_search and of an injected data_analysis, has
\* task_context = the task text, location = the extracted location, and a
\* timestamp.
C10_EveryEntryHasCommonFields ==
    Returned =>
        \A tool \in DOMAIN last.plan.parameters :
            LET params == last.plan.parameters[tool]
            IN  /\ {"task_context", "location", "timestamp"} \subseteq DOMAIN params
                /\ params.task_context = last.task
                /\ params.location = last.plan.extracted_context.location

-----------------------------------------------------------------------------
\* The context fields of the returned plan.
Context == last.plan.extracted_context

\* One of the words occurs in the text.
HasAny(low, words) == \E w \in words : Contains(low, w)

\* C11: task_type is decided by first-match priority on the lower-cased
\* text: environmental on pollution/environment/climate; else financial on
\* market/stock/finance; else weather on weather/temperature/forecast; else
\* analytical on analyze/compare/evaluate; else general. A text with both an
\* environmental and a financial keyword is environmental.
C11_TaskTypeByFirstMatch ==
    Returned =>
        LET low == lower(last.task)
            environmental == HasAny(low, {"pollution", "environment", "climate"})
            financial == HasAny(low, {"market", "stock", "finance"})
            weather == HasAny(low, {"weather", "temperature", "forecast"})
            analytical == HasAny(low, {"analyze", "compare", "evaluate"})
        IN  /\ environmental => Context.task_type = "environmental"
            /\ (~environmental /\ financial) => Context.task_type = "financial"
            /\ (~environmental /\ ~financial /\ weather) =>
                   Context.task_type = "weather"
            /\ (~environmental /\ ~financial /\ ~weather /\ analytical) =>
                   Context.task_type = "analytical"
            /\ (~environmental /\ ~financial /\ ~weather /\ ~analytical) =>
                   Context.task_type = "general"

\* C11's case: a text with an environmental and a financial keyword was
\* classified environmental.
C11_Witness ==
    /\ Returned
    /\ last.task = "Analyze pollution stock market"
    /\ Context.task_type = "environmental"

\* C12: task_complexity is high iff the task has more than 15 words or its
\* lower-cased text contains a complexity keyword; otherwise medium iff it
\* has more than 8 words; otherwise low.
C12_ComplexityByWordsAndKeywords ==
    Returned =>
        LET words == WordCount(last.task)
            keyword == HasAny(lower(last.task),
                          {"compare", "analyze", "evaluate", "assessment",
                           "comprehensive", "detailed"})
            high == words > 15 \/ keyword
        IN  /\ last.plan.task_complexity = "high" <=> high
            /\ last.plan.task_complexity = "medium" <=> (~high /\ words > 8)
            /\ last.plan.task_complexity = "low" <=> (~high /\ words <= 8)

\* C12's case: a task of exactly 8 words without a complexity keyword was
\* assessed low.
C12_Witness ==
    /\ Returned
    /\ last.task = "a b co d e f g h"
    /\ WordCount(last.task) = 8
    /\ last.plan.task_complexity = "low"

\* The noise words as the specification lists them.
ListedNoiseWords == {"data", "information", "analysis", "report", "study"}

\* The first capture, in pattern order, that is not a listed noise word.
RECURSIVE FirstListedLocation(_, _, _, _)
FirstListedLocation(patterns, text, low, n) ==
    IF n > Len(patterns) THEN "global"
    ELSE LET match == re_search_group1(patterns[n], text, low)
         IN  IF match # <<>> /\ lower(strip(match[1])) \notin ListedNoiseWords
             THEN strip(match[1])
             ELSE FirstListedLocation(patterns, text, low, n + 1)

\* C13: the location is the first capture, in the fixed pattern order, whose
\* trimmed value is not one of data, information, analysis, report, study;
\* a noise capture is skipped; without a non-noise capture it is global.
C13_NoiseCapturesAreSkipped ==
    Returned =>
        Context.location =
            FirstListedLocation(InitialLocationPatterns, last.task,
                                lower(last.task), 1)

\* C14: "Analyze pollution in Delhi" gets the location Delhi, and
\* "Show me the data" gets the location global.
C14_ExampleLocations ==
    /\ (Returned /\ last.task = "Analyze pollution in Delhi") =>
           Context.location = "Delhi"
    /\ (Returned /\ last.task = "Show me the data") =>
           Context.location = "global"

\* C15: has_comparison is true iff the lower-cased text contains one of
\* last year, previous year, 2023, 2024, 2025, compared to, vs, versus,
\* difference, change from.
C15_ComparisonIffPhrase ==
    Returned =>
        (Context.has_comparison <=>
            HasAny(lower(last.task),
                   {"last year", "previous year", "2023", "2024", "2025",
                    "compared to", "vs", "versus", "difference", "change from"}))

\* C15's case: texts with and without a phrase exist; this one has vs.
C15_Witness ==
    /\ Returned
    /\ Contains(lower(last.task), "vs")
    /\ ~Contains(lower(last.task), "versus")
    /\ Context.has_comparison = TRUE

\* C16: the comparison-derived parameters agree with has_comparison:
\* web_search.date_filter is recent iff has_comparison, else all, whether
\* web_search was matched or added by the fallback; web_search.query is the
\* task text; environmental_data.include_comparison and
\* weather_data.historical_data equal has_comparison.
C16_ParametersFollowComparison ==
    Returned =>
        LET parameters == last.plan.parameters
            has_comparison == Context.has_comparison
        IN  /\ "web_search" \in DOMAIN parameters =>
                /\ parameters["web_search"].date_filter =
                       IF has_comparison THEN "recent" ELSE "all"
                /\ parameters["web_search"].query = last.task
            /\ "environmental_data" \in DOMAIN parameters =>
                parameters["environmental_data"].include_comparison = has_comparison
            /\ "weather_data" \in DOMAIN parameters =>
                parameters["weather_data"].historical_data = has_comparison

\* C16's case: the fallback added web_search for a text with a comparison.
C16_Witness ==
    /\ Returned
    /\ MatchedCategories(last.task) = {}
    /\ Context.has_comparison = TRUE
    /\ last.plan.parameters["web_search"].date_filter = "recent"

\* C17: analysis_type of data_analysis is comparative iff has_comparison
\* (descriptive otherwise) when data_analysis matched by its own patterns,
\* and comparative whatever has_comparison when it was injected.
C17_AnalysisTypeByOrigin ==
    (Returned /\ "data_analysis" \in DOMAIN last.plan.parameters) =>
        last.plan.parameters["data_analysis"].analysis_type =
            IF "data_analysis" \in MatchedCategories(last.task)
            THEN (IF Context.has_comparison THEN "comparative" ELSE "descriptive")
            ELSE "comparative"

\* C17's case: data_analysis was injected for a text without a comparison.
C17_Witness ==
    /\ Returned
    /\ "data_analysis" \in Entries(last.plan.tools)
    /\ "data_analysis" \notin MatchedCategories(last.task)
    /\ Context.has_comparison = FALSE
    /\ last.plan.parameters["data_analysis"].analysis_type = "comparative"

\* The literal occurs in the text with no word character on either side.
WholeWordIn(low, literal) ==
    \E i \in 1..Len(low) :
        /\ LiteralAt(low, literal, i)
        /\ (i > 1 => ~IsWordChar(Char(low, i - 1)))
        /\ (i + Len(literal) <= Len(low) => ~IsWordChar(Char(low, i + Len(literal))))

\* The pattern of a vocabulary token occurs in the text.
TokenOccurs(pattern, low) ==
    \E i \in 1..Len(pattern.alternatives) :
        IF pattern.alternatives[i].word
        THEN WholeWordIn(low, pattern.alternatives[i].literal)
        ELSE Contains(low, pattern.alternatives[i].literal)

\* The tokens of the vocabulary, in its order, whose pattern occurs.
RECURSIVE OccurringTokens(_, _)
OccurringTokens(low, n) ==
    IF n = 0 THEN <<>>
    ELSE IF TokenOccurs(metric_patterns[n], low)
    THEN Append(OccurringTokens(low, n - 1), metric_patterns[n].metric)
    ELSE OccurringTokens(low, n - 1)

\* C18: when environmental_data is selected, metrics is the list of the
\* vocabulary tokens pm2.5, pm10, no2, so2, co, o3, aqi, in that order, whose
\* pattern occurs in the lower-cased text, co as a whole word only; without
\* any it is [pm2.5, pm10, no2]; "Check PM2.5 and NO2 levels" gives
\* [pm2.5, no2].
C18_MetricsAreOccurringTokens ==
    (Returned /\ "environmental_data" \in DOMAIN last.plan.parameters) =>
        LET metrics == last.plan.parameters["environmental_data"].metrics
            occurring == OccurringTokens(lower(last.task), Len(metric_patterns))
        IN  /\ [i \in 1..Len(metric_patterns) |-> metric_patterns[i].metric] =
                   << "pm2.5", "pm10", "no2", "so2", "co", "o3", "aqi" >>
            /\ metrics = IF occurring = <<>>
                         THEN << "pm2.5", "pm10", "no2" >>
                         ELSE occurring
            /\ last.task = "Check PM2.5 and NO2 levels" =>
                   metrics = << "pm2.5", "no2" >>

\* C18's case: environmental_data was selected for a text that has co only
\* inside another word, and co is not among the metrics.
C18_Witness ==
    /\ Returned
    /\ "environmental_data" \in DOMAIN last.plan.parameters
    /\ Contains(lower(last.task), "co")
    /\ ~WholeWordIn(lower(last.task), "co")
    /\ ~InList(last.plan.parameters["environmental_data"].metrics, "co")

\* The priority list as the specification gives it.
ListedPriority ==
    << "environmental_data", "web_search", "weather_data", "market_data",
       "data_analysis" >>

\* The index of the first occurrence of x in the list.
FirstIndex(list, x) ==
    CHOOSE i \in 1..Len(list) :
        list[i] = x /\ \A j \in 1..(i - 1) : list[j] # x

\* C19: get_tool_execution_order returns the input categories of the
\* priority list in the order environmental_data, web_search, weather_data,
\* market_data, data_analysis, followed by the other input categories in
\* their original relative order; [data_analysis, web_search,
\* environmental_data] becomes [environmental_data, web_search,
\* data_analysis].
C19_PriorityThenOriginalOrder ==
    ordered_tools # NoOrder =>
        LET listed == Entries(ListedPriority)
            result == ordered_tools
        IN  /\ Entries(result) = Entries(tools_arg)
            /\ NoDuplicates(result)
            /\ \A i, j \in 1..Len(result) :
                   i < j =>
                       /\ result[j] \in listed => result[i] \in listed
                       /\ (result[i] \in listed /\ result[j] \in listed) =>
                              Position(ListedPriority, result[i]) <
                                  Position(ListedPriority, result[j])
                       /\ (result[i] \notin listed /\ result[j] \notin listed) =>
                              FirstIndex(tools_arg, result[i]) <
                                  FirstIndex(tools_arg, result[j])
            /\ tools_arg = << "data_analysis", "web_search", "environmental_data" >> =>
                   result = << "environmental_data", "web_search", "data_analysis" >>

\* C19's case: the example list was reordered.
C19_Witness ==
    /\ tools_arg = << "data_analysis", "web_search", "environmental_data" >>
    /\ ordered_tools = << "environmental_data", "web_search", "data_analysis" >>

\* C20: every returned plan is well-typed: task_complexity is low, medium
\* or high; execution_strategy is single, sequential or parallel; task_type
\* is environmental, financial, weather, analytical or general;
\* has_comparison is a boolean; every tool is one of the five categories.
C20_PlanIsWellTyped ==
    Returned =>
        /\ last.plan.task_complexity \in {"low", "medium", "high"}
        /\ last.plan.execution_strategy \in {"single", "sequential", "parallel"}
        /\ Context.task_type \in
               {"environmental", "financial", "weather", "analytical", "general"}
        /\ Context.has_comparison \in BOOLEAN
        /\ \A i \in 1..Len(last.plan.tools) :
               last.plan.tools[i] \in
                   {"environmental_data", "web_search", "market_data",
                    "weather_data", "data_analysis"}

\* C20's case: a plan of three tools for a task with complexity keywords.
C20_Witness ==
    /\ Returned
    /\ Len(last.plan.tools) = 3
    /\ last.plan.task_complexity = "high"
    /\ last.plan.execution_strategy = "parallel"

\* A text that holds the keyword holds a pattern of the category, in the
\* dispatcher's table.
KeywordSelects(self, keyword, category) ==
    \E i \in 1..Len(tool_patterns[self]) :
        /\ tool_patterns[self][i].tool_type = category
        /\ AnySearch(tool_patterns[self][i].patterns, keyword)

\* C22: the task_type of a plan is consistent with its tools: environmental
\* implies environmental_data, financial implies market_data, weather
\* implies weather_data, and analytical implies data_analysis and the
\* complexity high; every keyword of a type holds a pattern of its category.
C22_TaskTypeConsistentWithTools ==
    Returned =>
        LET tools == Entries(last.plan.tools)
        IN  /\ \A k \in {"pollution", "environment", "climate"} :
                   KeywordSelects(last.dispatcher, k, "environmental_data")
            /\ \A k \in {"market", "stock", "finance"} :
                   KeywordSelects(last.dispatcher, k, "market_data")
            /\ \A k \in {"weather", "temperature", "forecast"} :
                   KeywordSelects(last.dispatcher, k, "weather_data")
            /\ \A k \in {"analyze", "compare", "evaluate"} :
                   /\ KeywordSelects(last.dispatcher, k, "data_analysis")
                   /\ AnySearch(complexity_indicators, k)
            /\ Context.task_type = "environmental" => "environmental_data" \in tools
            /\ Context.task_type = "financial" => "market_data" \in tools
            /\ Context.task_type = "weather" => "weather_data" \in tools
            /\ Context.task_type = "analytical" =>
                   /\ "data_analysis" \in tools
                   /\ last.plan.task_complexity = "high"

\* C22's case: a short analytical task, with data_analysis as its only tool.
C22_Witness ==
    /\ Returned
    /\ last.task = "Evaluate"
    /\ Context.task_type = "analytical"
    /\ last.plan.tools = << "data_analysis" >>
    /\ last.plan.task_complexity = "high"

\* C23: the strategy sequential is returned only when exactly two categories
\* matched and one of them is data_analysis; two matched categories other
\* than data_analysis give three tools and parallel; no plan has exactly two
\* tools without data_analysis.
C23_SequentialOnlyWithMatchedAnalysis ==
    Returned =>
        LET matched == MatchedCategories(last.task)
        IN  /\ last.plan.execution_strategy = "sequential" =>
                   /\ Cardinality(matched) = 2
                   /\ "data_analysis" \in matched
            /\ (Cardinality(matched) = 2 /\ "data_analysis" \notin matched) =>
                   /\ Len(last.plan.tools) = 3
                   /\ last.plan.execution_strategy = "parallel"
            /\ Len(last.plan.tools) = 2 =>
                   "data_analysis" \in Entries(last.plan.tools)

\* C23's case: two categories without data_analysis matched and the plan
\* is parallel.
C23_Witness ==
    /\ Returned
    /\ MatchedCategories(last.task) = {"market_data", "weather_data"}
    /\ last.plan.execution_strategy = "parallel"

\* C24: for every input list, duplicates and unknown categories included,
\* get_tool_execution_order returns a list without duplicates that has the
\* elements of the input, and ordering the result again changes nothing.
C24_OrderIsDedupedPermutationAndIdempotent ==
    ordered_tools # NoOrder =>
        /\ NoDuplicates(ordered_tools)
        /\ Entries(ordered_tools) = Entries(tools_arg)
        /\ get_tool_execution_order(ordered_tools) = ordered_tools

\* C24's case: a list with an unknown name twice was ordered.
C24_Witness ==
    /\ tools_arg = << "custom_tool", "web_search", "custom_tool" >>
    /\ ordered_tools = << "web_search", "custom_tool" >>

\* A plan without the clock readings of its parameters.
WithoutTimestamps(plan) ==
    [plan EXCEPT !.parameters =
        [k \in DOMAIN plan.parameters |->
            [field \in DOMAIN plan.parameters[k] \ {"timestamp"} |->
                plan.parameters[k][field]]]]

\* C21: analyze_task and get_tool_execution_order have no side effects on
\* the dispatcher: whatever calls ran, interleaved on one dispatcher or not,
\* tool_patterns, location_patterns and time_patterns are as constructed,
\* the list handed to get_tool_execution_order is as it was handed over,
\* and every call returns what it returns when run alone.
C21_CallsHaveNoSideEffects ==
    /\ \A d \in Dispatchers :
           /\ tool_patterns[d] = InitialToolPatterns
           /\ location_patterns[d] = InitialLocationPatterns
           /\ time_patterns[d] = InitialTimePatterns
    /\ \A c \in Callers :
           frames[c] # NoFrame =>
               /\ frames[c].tools = frames[c].given
               /\ (frames[c].pc = "done" /\ frames[c].op = "analyze_task") =>
                      WithoutTimestamps(frames[c].result) =
                          WithoutTimestamps(
                              analyze_task(frames[c].self, frames[c].task_description))
               /\ (frames[c].pc = "done" /\ frames[c].op = "get_tool_execution_order") =>
                      frames[c].result = get_tool_execution_order(frames[c].given)

\* C21's case: two calls of analyze_task on the shared dispatcher both
\* returned, the second having selected its tools while the first was
\* between its selection and its return.
C21_Witness ==
    /\ frames["c1"] # NoFrame
    /\ frames["c1"].op = "analyze_task"
    /\ frames["c2"].op = "analyze_task"
    /\ frames["c1"].pc = "inject"
    /\ frames["c2"].pc = "return"
    /\ frames["c1"].task_description = "Analyze pollution in Delhi"
    /\ frames["c2"].task_description = "stock market weather conditions"
    /\ Len(frames["c2"].selected.tools) = 3

-----------------------------------------------------------------------------
(* Claims about the flows.                                                 *)

\* The calls of execute_task and coordinate_project that have ended.
Ended(flow) == flow.pc \in {"returned", "raised"}

IsErrorRecord(result, prefix) ==
    /\ "error" \in DOMAIN result
    /\ startswith(result.error, prefix)
    /\ Len(result.error) > Len(prefix)

\* C25: execute_task and coordinate_project never propagate an exception:
\* a call that an exception ended has returned a record with an "error"
\* string, and a team that returned such a record has its tasks_completed
\* as it was before the call.
C25_ExceptionsBecomeErrorRecords ==
    /\ outer_flow.pc # "raised"
    /\ outer_flow.raised = NoException
    /\ (Ended(outer_flow) /\ outer_flow.validation_result = EmptyDict) =>
           IsErrorRecord(outer_flow.result, "Project coordination error: ")
    /\ \A team_name \in TeamSet :
           LET team_flow == inner_teams[team_name]
           IN  /\ team_flow.pc # "raised"
               /\ team_flow.raised = NoException
               /\ (Ended(team_flow) /\ team_flow.research_result = EmptyDict) =>
                      /\ IsErrorRecord(team_flow.result, "Task execution error: ")
                      /\ team_flow.tasks_completed = 0

\* C25's case: EOFError ended coordinate_project in its last phase, after
\* AttributeError ended one team's execute_task and EOFError another's.
C25_Witness ==
    /\ outer_flow.pc = "returned"
    /\ outer_flow.phase = "validation"
    /\ outer_flow.result =
           [error |-> "Project coordination error: EOF when reading a line",
            project_id |-> "PROJECT_1",
            tasks |-> outer_flow.project_tasks]
    /\ inner_teams["team_alpha"].human_response = "approve"
    /\ IsErrorRecord(inner_teams["team_alpha"].result,
                     "Task execution error: 'InnerTeamUserProxy' object has no")
    /\ inner_teams["team_beta"].result =
           [error |-> "Task execution error: EOF when reading a line",
            team_name |-> "team_beta",
            task |-> "Default analysis task 2"]
    /\ inner_teams["team_beta"].tasks_completed = 0

\* The phase that calls a tool of the outer flow.
ToolPhase(tool) ==
    IF tool = "team_coordination_analysis_tool" THEN "coordination" ELSE "allocation"

\* The human's decisions in a phase, as the proxy and as the flow recorded
\* them.
ProxyDecisions(phase) ==
    {outer_flow.human_proxy.strategic_decisions[i].decision :
        i \in {j \in 1..Len(outer_flow.human_proxy.strategic_decisions) :
                  outer_flow.human_proxy.strategic_decisions[j].context = phase}}

FlowDecisions(phase) ==
    {outer_flow.strategic_decisions[i].decision :
        i \in {j \in 1..Len(outer_flow.strategic_decisions) :
                  outer_flow.strategic_decisions[j].type = DecisionType(phase)}}

\* A response that approves: one of the command APPROVE.
IsApproval(response) == startswith(upper(response), "APPROVE")

\* The tools of the outer flow ran only after the plan, the response and
\* its record.
ToolsAfterRecordedResponse ==
    \A i \in 1..Len(outer_flow.tools_called) :
        LET phase == ToolPhase(outer_flow.tools_called[i])
        IN  /\ phase \in outer_flow.plans
            /\ ProxyDecisions(phase) # {}
            /\ FlowDecisions(phase) = ProxyDecisions(phase)

\* C26: human approval is a blocking checkpoint: a phase's tool has run
\* only if the phase's plan was produced, the human's response to it was
\* obtained and recorded, and that response is an approval.
C26_ToolsOnlyAfterRecordedApproval ==
    /\ \A team_name \in TeamSet :
           inner_teams[team_name].tool_executions # <<>> =>
               /\ inner_teams[team_name].research_plan
               /\ inner_teams[team_name].human_interventions # <<>>
               /\ IsApproval(inner_teams[team_name].human_response)
    /\ ToolsAfterRecordedResponse
    /\ \A i \in 1..Len(outer_flow.tools_called) :
           \A decision \in FlowDecisions(ToolPhase(outer_flow.tools_called[i])) :
               IsApproval(decision)

\* C27: a response that starts with "REJECT:" rejects the proposal whatever
\* its reason: the phase it answers yields status "rejected" and executes
\* no tool.
C27_RejectYieldsRejected ==
    \A team_name \in TeamSet :
        LET team_flow == inner_teams[team_name]
        IN  (Ended(team_flow) /\ startswith(upper(team_flow.human_response), "REJECT:")) =>
                /\ Get(team_flow.research_result, "status", "") = "rejected"
                /\ team_flow.tool_executions = <<>>

\* The teams whose coroutine was made and has not started to run.
NotStarted == {team_name \in TeamSet : inner_teams[team_name].pc = "created"}

\* C28: in phase 3 the assigned teams execute in parallel: once the flow
\* waits for its teams, the execution of every assigned team has started,
\* so that no team's execution waits for an earlier team's to finish.
C28_AssignedTeamsRunInParallel ==
    outer_flow.pc = "awaiting" => NotStarted = {}

\* C29: completed_teams and success_rate count only the teams whose
\* execution succeeded: a team whose result has an "error" entry is not
\* counted and has final_status "failed".
C29_ErrorsAreNotCountedAsCompleted ==
    LET team_results == outer_flow.team_results
        succeeded == {team_name \in DOMAIN team_results :
                         "error" \notin DOMAIN team_results[team_name]}
    IN  /\ outer_flow.completed_teams <= Cardinality(succeeded)
        /\ \A team_name \in DOMAIN team_results \ succeeded :
               Get(team_results[team_name], "final_status", "unknown") = "failed"
        /\ outer_flow.execution_summary # EmptyDict =>
               /\ outer_flow.execution_summary.completed_teams = Cardinality(succeeded)
               /\ outer_flow.execution_summary.success_rate =
                      IF outer_flow.execution_summary.total_teams = 0 THEN 0
                      ELSE (Cardinality(succeeded) * 100)
                               \div outer_flow.execution_summary.total_teams

\* A response that is not empty and starts, in any case, with one of the
\* commands.
Accepted(response, commands) ==
    /\ response # ""
    /\ \E i \in 1..Len(commands) :
           /\ Len(response) >= Len(commands[i])
           /\ upper(SubSeq(response, 1, Len(commands[i]))) = commands[i]

InnerCommands == << "APPROVE", "REJECT:", "MODIFY:", "OVERRIDE:" >>

StrategicCommands ==
    << "APPROVE", "MODIFY:", "ESCALATE:", "REASSIGN:", "OPTIMIZE:", "MONITOR:" >>

\* C30: the input loops return only accepted responses, they ask again
\* after an empty or invalid line without returning or recording it, and
\* every call that returns has appended exactly one record, of the
\* response it returns, to the history of its proxy.
C30_OnlyAcceptedResponsesReturn ==
    /\ \A team_name \in TeamSet :
           LET team_flow == inner_teams[team_name]
               history == team_flow.decision_history
           IN  /\ \A i \in 1..Len(history) : Accepted(history[i].response, InnerCommands)
               /\ team_flow.human_response = "" => history = <<>>
               /\ team_flow.human_response # "" =>
                      /\ Len(history) = 1
                      /\ history[1].response = team_flow.human_response
               /\ team_flow.input.reads > 0 =>
                      /\ team_flow.pc = "human_input"
                      /\ ~Accepted(team_flow.input.user_input, InnerCommands)
                      /\ history = <<>>
    /\ LET history == outer_flow.human_proxy.strategic_decisions
           returned == Len(outer_flow.strategic_decisions)
                          + (IF outer_flow.pc = "record" THEN 1 ELSE 0)
       IN  /\ \A i \in 1..Len(history) : Accepted(history[i].decision, StrategicCommands)
           /\ Len(history) = returned
           /\ \A i \in 1..Len(outer_flow.strategic_decisions) :
                  outer_flow.strategic_decisions[i].decision = history[i].decision
           /\ outer_flow.pc = "record" =>
                  history[Len(history)].decision = outer_flow.human_decision
           /\ outer_flow.input.reads > 0 =>
                  /\ outer_flow.pc = "input"
                  /\ ~Accepted(outer_flow.input.user_input, StrategicCommands)

\* C30's case: the strategic loop returned the default approval after an
\* interrupt and then a modification; one team's loop returned a rejection
\* and the next team's loop has asked again twice, last after a sentence
\* that is not a command.
C30_Witness ==
    /\ Len(outer_flow.human_proxy.strategic_decisions) = 2
    /\ outer_flow.human_proxy.strategic_decisions[1].decision = DefaultStrategicApproval
    /\ outer_flow.human_proxy.strategic_decisions[2].decision = "MODIFY: approve later"
    /\ inner_teams["team_alpha"].human_response = "REJECT: do not approve"
    /\ Len(inner_teams["team_alpha"].decision_history) = 1
    /\ inner_teams["team_beta"].pc = "human_input"
    /\ inner_teams["team_beta"].input = [user_input |-> "I approve", reads |-> 2]
    /\ inner_teams["team_beta"].decision_history = <<>>

=============================================================================
